---------------------------- MODULE Spec2Model ----------------------------
(***************************************************************************)
(* Model of sixaxispairer: the connection strategy (connect_to_controller, *)
(* connect_to_dualshock4_raw), the pairing protocol (pair_device,          *)
(* show_pairing), the diagnostic dump (dump_device_info) and the MAC codec *)
(* (mac_to_bytes, bytes_to_mac_string), the device enumerator              *)
(* (find_controllers) and main with its options and its selection prompt.  *)
(*                                                                         *)
(* Spec runs main from its call of connect_to_controller, SpecMain runs    *)
(* main from its entry, SpecFind runs one call of find_controllers and     *)
(* SpecHarness runs pair_device and then show_pairing on one handle.       *)
(*                                                                         *)
(* The HID transport (hidapi) is the environment: every open and every     *)
(* feature-report call has a nondeterministic outcome.  The controller's   *)
(* pairing register is bytes 2..7 of the variable written.  Every          *)
(* transport call, and every free_controller_info, is appended to the      *)
(* history variable calls.                                                 *)
(***************************************************************************)
EXTENDS Integers, Sequences, FiniteSets, TLC

(***************************************************************************)
(* Program constants                                                       *)
(***************************************************************************)
VENDOR_SONY == 1356

PRODUCT_SIXAXIS == 616

PRODUCT_MOVE == 1071

PRODUCT_DS4 == 2508

DS4_HID_INTERFACE == 3

MAC_REPORT_ID == 245

DS4_ALT_REPORT_1 == 18

DS4_ALT_REPORT_2 == 129

BUF_SIZE == 8
\* #define MAX_CONTROLLERS 10
MAX_CONTROLLERS == 10

(***************************************************************************)
(* Bounds of the model                                                     *)
(***************************************************************************)
\* number of distinct sample MAC addresses the inputs are drawn from
NumMacs == 2

(***************************************************************************)
(* Small helpers                                                           *)
(***************************************************************************)
Range(s) == {s[i] : i \in 1..Len(s)}

IndexOf(s, c) == CHOOSE i \in 1..Len(s) : s[i] = c

Zeros(n) == [i \in 1..n |-> 0]

\* the k-th sample MAC: 01:23:45:67:89:ab, cd:ef:11:33:55:77, 99:bb:dd:ff:21:43, ...
\* (the first two hold every hexadecimal digit)
SampleMac(k) == [i \in 1..6 |-> (1 + (i - 1) * 34 + (k - 1) * 204) % 256]

SampleMacs == {SampleMac(k) : k \in 1..NumMacs}

(***************************************************************************)
(* MAC codec (mac_utils.c).  A C string is a sequence of one-character     *)
(* strings.                                                                *)
(***************************************************************************)
DecDigits == <<"0", "1", "2", "3", "4", "5", "6", "7", "8", "9">>

LowerHex == <<"a", "b", "c", "d", "e", "f">>

UpperHex == <<"A", "B", "C", "D", "E", "F">>

\* faulty variant of isxdigit: the letter after f passes as a digit
isxdigit_Lax(c) ==
    c \in Range(DecDigits) \cup Range(LowerHex) \cup Range(UpperHex) \cup {"g"}

isxdigit(c) == c \in Range(DecDigits) \cup Range(LowerHex) \cup Range(UpperHex)

\* faulty variant of char_to_nibble: an upper-case digit loses its offset of 10
char_to_nibble_NoOffset(c) ==
    IF c \in Range(DecDigits) THEN IndexOf(DecDigits, c) - 1
    ELSE IF c \in Range(LowerHex) THEN IndexOf(LowerHex, c) - 1 + 10
    ELSE IF c \in Range(UpperHex) THEN IndexOf(UpperHex, c) - 1
    ELSE 255

char_to_nibble(c) ==
    IF c \in Range(DecDigits) THEN IndexOf(DecDigits, c) - 1
    ELSE IF c \in Range(LowerHex) THEN IndexOf(LowerHex, c) - 1 + 10
    ELSE IF c \in Range(UpperHex) THEN IndexOf(UpperHex, c) - 1 + 10
    ELSE 255

\* the while loop of mac_to_bytes: p and i are the C values (0-based), out the
\* output array; the result is [ok, out, i]
RECURSIVE mac_loop(_, _, _, _)
mac_loop(in, p, i, out) ==
    IF p + 1 < Len(in) /\ i < Len(out)
    THEN IF in[p + 1] = ":"
         THEN mac_loop(in, p + 1, i, out)
         ELSE IF ~isxdigit(in[p + 1]) \/ ~isxdigit(in[p + 2])
              THEN [ok |-> FALSE, out |-> out, i |-> i]
              ELSE mac_loop(in, p + 2, i + 1,
                     [out EXCEPT ![i + 1] =
                        ((char_to_nibble(in[p + 1]) * 16) % 256)
                          + char_to_nibble(in[p + 2])])
    ELSE [ok |-> ~(p < Len(in)), out |-> out, i |-> i]

\* mac_to_bytes(in, in_len, out, out_len) with in_len = strlen(in); out is the
\* array as it is on entry (it is left as it is when the arguments are refused)
mac_to_bytes(in, out) ==
    IF Len(in) = 0 \/ Len(out) = 0
    THEN [ok |-> FALSE, out |-> out, i |-> 0]
    ELSE mac_loop(in, 0, 0, Zeros(Len(out)))

HexChar(n) == IF n < 10 THEN DecDigits[n + 1] ELSE LowerHex[n - 10 + 1]

\* faulty variant of Fmt02x: the low digit is written before the high one
Fmt02x_Swapped(b) == <<HexChar(b % 16), HexChar(b \div 16)>>

\* "%02x"
Fmt02x(b) == <<HexChar(b \div 16), HexChar(b % 16)>>

bytes_to_mac_string(in, use_colons) ==
    IF use_colons
    THEN Fmt02x(in[1]) \o <<":">> \o Fmt02x(in[2]) \o <<":">> \o Fmt02x(in[3])
           \o <<":">> \o Fmt02x(in[4]) \o <<":">> \o Fmt02x(in[5]) \o <<":">>
           \o Fmt02x(in[6])
    ELSE Fmt02x(in[1]) \o Fmt02x(in[2]) \o Fmt02x(in[3]) \o Fmt02x(in[4])
           \o Fmt02x(in[5]) \o Fmt02x(in[6])


(***************************************************************************)
(* State                                                                   *)
(***************************************************************************)
VARIABLES
    mode,        \* "main": a run of main from its call of connect_to_controller;
                 \* "harness": pair_device then show_pairing on one handle;
                 \* "whole": a run of main from its entry; "find": one call of find_controllers
    argv,        \* argv[1..argc-1], each a C string
    attached,    \* the HID devices attached to the host, as hid_enumerate(0, 0) lists them
    devs,        \* struct hid_device_info *devs of find_controllers: [id, list]
    cur_dev,     \* cur_dev of find_controllers: a position in devs.list, Len + 1 for NULL
    controllers, \* controller_info_t *controllers[]: the entries written so far
    controller_count,  \* int controller_count
    max_controllers,   \* the cap passed to find_controllers
    selected_index,    \* int selected_index of main, -1 before the selection
    heap,        \* the allocator: FALSE when malloc has no memory left to give
    stdin_eof,   \* stdin has reached its end: every fgets returns NULL
    cmd,         \* "show" (no argument), "pair" (one argument), "dump" (-d)
    arg,         \* argv[1] of the pair command, a C string
    controller,  \* the controller_info_t that is connected to
    pc,          \* the position of the program
    dev,         \* hid_device *dev (NULL or a handle)
    is_ds4,      \* is_ds4 of pair_device / show_pairing
    buf,         \* unsigned char buf[8] of pair_device / show_pairing
    alt_buf,     \* unsigned char alt_buf[8] of pair_device
    ret,         \* int ret of pair_device / show_pairing
    dump_i,      \* number of feature reports dump_device_info has requested
    ret_pc,      \* where dump_device_info returns to
    calls,       \* history: the transport calls made so far, in order
    output,      \* history: the results reported so far, in order
    written,     \* the controller: the last feature report it accepted (bytes 2..7: the pairing address)
    exit_code,   \* the exit status of main, -1 while it runs
    input,       \* history: the answers read at the prompt of show_pairing, in order
    written0     \* history: the value of written when the command started

\* the state of find_controllers and of the front of main
envVars == <<heap, stdin_eof>>

findVars == <<argv, attached, devs, cur_dev, controllers, controller_count,
              max_controllers, selected_index, envVars>>

vars == <<mode, cmd, arg, controller, pc, dev, is_ds4, buf, alt_buf, ret,
          dump_i, ret_pc, calls, output, written, exit_code, input, written0,
          findVars>>

NULL == [id |-> 0, route |-> "NULL"]

\* the handle yielded by the open call that is about to be logged
Handle(route) == [id |-> Len(calls) + 1, route |-> route]

\* the pairing address held by the controller
Stored == SubSeq(written, 3, 8)

Products == {PRODUCT_SIXAXIS, PRODUCT_MOVE, PRODUCT_DS4}

\* a struct hid_device_info: the fields the program reads.  path is the place
\* of the device in the list of attached devices, so it is unique.
Descriptor(v, p, n, path) ==
    [vendor_id |-> v, product_id |-> p, interface_number |-> n, path |-> path]

\* faulty variant of is_supported_controller: every product of the vendor passes
is_supported_controller_AnyProduct(vendor_id, product_id) == vendor_id = VENDOR_SONY

\* is_supported_controller(vendor_id, product_id), over SUPPORTED_PRODUCTS
is_supported_controller(vendor_id, product_id) ==
    /\ vendor_id = VENDOR_SONY
    /\ product_id \in Products

\* create_controller_info(device_info) when malloc yields memory: the fields
\* copied (path by strdup) and the preferred flag
create_controller_info(device_info) ==
    [vendor_id |-> device_info.vendor_id,
     product_id |-> device_info.product_id,
     interface_number |-> device_info.interface_number,
     path |-> device_info.path,
     is_preferred |-> (device_info.product_id = PRODUCT_DS4
                       /\ device_info.interface_number = DS4_HID_INTERFACE)]

\* the records find_controllers can hand to connect_to_controller
Controllers ==
    {create_controller_info(Descriptor(VENDOR_SONY, p, n, 1))
        : p \in Products, n \in {0, DS4_HID_INTERFACE}}

\* arguments of the pair command: the sample MACs in both formats and in upper
\* case, and malformed ones
UpperCase(s) ==
    [i \in 1..Len(s) |-> IF s[i] \in Range(LowerHex)
                         THEN UpperHex[IndexOf(LowerHex, s[i])] ELSE s[i]]

WellFormedArgs ==
    UNION {{bytes_to_mac_string(m, TRUE), bytes_to_mac_string(m, FALSE),
            UpperCase(bytes_to_mac_string(m, TRUE))} : m \in SampleMacs}

MalformedArgs ==
    { <<>>,
      <<"-", "x">>,
      <<"0", "0", "1", "1", "2", "2", "3", "3", "4", "4", "5">>,
      <<"0", "0", "1", "1", "2", "2", "3", "3", "4", "4", "5", "g">>,
      <<"0", "0", ":", "1", "1", ":", "2", "2", ":", "3", "3", ":", "4", "4",
        ":", "5", ":">> }

\* 17 characters, colons and five pairs of hex digits
ColonPaddedArgs ==
    { <<":", ":", ":", "0", "0", ":", "1", "1", ":", "2", "2", ":", "3", "3",
        ":", "4", "4">> }

Args == WellFormedArgs \cup MalformedArgs \cup ColonPaddedArgs

\* the states a controller can be in: it holds some pairing address
InitialWritten == {<<MAC_REPORT_ID, 0>> \o m : m \in SampleMacs}

Init ==
    /\ mode = "main"
    /\ cmd \in {"show", "pair", "dump"}
    /\ arg \in IF cmd = "pair" THEN Args ELSE {<<>>}
    /\ controller \in Controllers
    /\ pc = "connect_path"
    /\ dev = NULL
    /\ is_ds4 = FALSE
    /\ buf = Zeros(BUF_SIZE)
    /\ alt_buf = Zeros(BUF_SIZE)
    /\ ret = 0
    /\ dump_i = 0
    /\ ret_pc = "none"
    /\ calls = <<>>
    /\ output = <<>>
    /\ written \in InitialWritten
    /\ exit_code = -1
    /\ input = <<>>
    /\ written0 = written
    /\ argv = IF cmd = "pair" THEN <<arg>>
              ELSE IF cmd = "dump" THEN << <<"-", "d">> >> ELSE <<>>
    /\ attached = <<Descriptor(controller.vendor_id, controller.product_id,
                               controller.interface_number, controller.path)>>
    /\ devs = [id |-> 0, list |-> <<>>]
    /\ cur_dev = 1
    /\ controllers = <<controller>>
    /\ controller_count = 1
    /\ max_controllers = MAX_CONTROLLERS
    /\ selected_index = 0
    /\ heap = TRUE
    /\ stdin_eof = FALSE

(***************************************************************************)
(* connect_to_controller and connect_to_dualshock4_raw                     *)
(* (controller_connection.c, mac_utils.h:69-161)                           *)
(***************************************************************************)
OpenCall(op, route, ok) == [op |-> op, who |-> route, ok |-> ok]

\* dev = hid_open_path(controller->path)
ConnectOpenPath ==
    /\ pc = "connect_path"
    /\ \E ok \in BOOLEAN :
         /\ dev' = IF ok THEN Handle("path") ELSE NULL
         /\ calls' = Append(calls, OpenCall("hid_open_path", "path", ok))
         /\ pc' = IF ok THEN "connect_ret" ELSE "connect_std"
    /\ UNCHANGED <<findVars, input, written0, mode, cmd, arg, controller, is_ds4, buf, alt_buf, ret,
                   dump_i, ret_pc, output, written, exit_code>>

\* faulty variant of ThirdStep: every kind retries the vendor/product open
ThirdStep_AlwaysRetry == "connect_retry"

\* the kind-specific third step chosen when the two standard opens failed
ThirdStep == IF controller.product_id = PRODUCT_DS4 THEN "raw_popen" ELSE "connect_retry"

\* faulty variant of ConnectOpenStd: the third step is taken whatever hid_open returned
ConnectOpenStd_NoNullTest ==
    /\ pc = "connect_std"
    /\ \E ok \in BOOLEAN :
         /\ dev' = IF ok THEN Handle("vidpid") ELSE NULL
         /\ calls' = Append(calls, OpenCall("hid_open", "vidpid", ok))
         /\ pc' = ThirdStep
    /\ UNCHANGED <<findVars, input, written0, mode, cmd, arg, controller, is_ds4, buf, alt_buf, ret,
                   dump_i, ret_pc, output, written, exit_code>>

\* if (dev == NULL) dev = hid_open(vendor_id, product_id, NULL)
ConnectOpenStd ==
    /\ pc = "connect_std"
    /\ \E ok \in BOOLEAN :
         /\ dev' = IF ok THEN Handle("vidpid") ELSE NULL
         /\ calls' = Append(calls, OpenCall("hid_open", "vidpid", ok))
         /\ pc' = IF ok THEN "connect_ret" ELSE ThirdStep
    /\ UNCHANGED <<findVars, input, written0, mode, cmd, arg, controller, is_ds4, buf, alt_buf, ret,
                   dump_i, ret_pc, output, written, exit_code>>

\* faulty variant of ConnectRetry: the retry is repeated until it succeeds or was made twice
ConnectRetry_Twice ==
    /\ pc = "connect_retry"
    /\ \E ok \in BOOLEAN :
         /\ dev' = IF ok THEN Handle("retry") ELSE NULL
         /\ calls' = Append(calls, OpenCall("hid_open", "retry", ok))
         /\ pc' = IF ~ok /\ calls[Len(calls)].who # "retry"
                  THEN "connect_retry" ELSE "connect_ret"
    /\ UNCHANGED <<findVars, input, written0, mode, cmd, arg, controller, is_ds4, buf, alt_buf, ret,
                   dump_i, ret_pc, output, written, exit_code>>

\* other controllers: dev = hid_open(vendor_id, product_id, NULL) once more
ConnectRetry ==
    /\ pc = "connect_retry"
    /\ \E ok \in BOOLEAN :
         /\ dev' = IF ok THEN Handle("retry") ELSE NULL
         /\ calls' = Append(calls, OpenCall("hid_open", "retry", ok))
    /\ pc' = "connect_ret"
    /\ UNCHANGED <<findVars, input, written0, mode, cmd, arg, controller, is_ds4, buf, alt_buf, ret,
                   dump_i, ret_pc, output, written, exit_code>>

\* connect_to_dualshock4_raw: fp = _popen(command), fgets(path), then _pclose(fp);
\* found: the command could be run and printed a raw device node
RawLookup ==
    /\ pc = "raw_popen"
    /\ \E found \in BOOLEAN :
         /\ calls' = Append(calls, OpenCall("popen", "raw", found))
         /\ pc' = IF found THEN "raw_open" ELSE "connect_ret"
    /\ UNCHANGED <<findVars, input, written0, mode, cmd, arg, controller, dev, is_ds4, buf, alt_buf, ret,
                   dump_i, ret_pc, output, written, exit_code>>

\* connect_to_dualshock4_raw: dev = hid_open_path(path) on the node found
RawOpen ==
    /\ pc = "raw_open"
    /\ \E ok \in BOOLEAN :
         /\ dev' = IF ok THEN Handle("raw") ELSE NULL
         /\ calls' = Append(calls, OpenCall("hid_open_path", "raw", ok))
    /\ pc' = "connect_ret"
    /\ UNCHANGED <<findVars, input, written0, mode, cmd, arg, controller, is_ds4, buf, alt_buf, ret,
                   dump_i, ret_pc, output, written, exit_code>>

Report(kind, mac) == [kind |-> kind, mac |-> mac]

\* faulty variant of MainReturn: every failure of main returns 0
MainReturn_Zero(failed) == 0

\* the value main returns when it could not find or open a controller (1) and
\* at its end (0)
MainReturn(failed) == IF failed THEN 1 ELSE 0

\* for (i = 0; i < controller_count; i++) free_controller_info(controllers[i])
FreeAll(who) ==
    [i \in 1..controller_count |->
        [op |-> "free_controller_info", who |-> who, id |-> controllers[i].path]]

\* hid_exit()
HidExit == <<[op |-> "hid_exit", who |-> "main"]>>

\* faulty variant of FailedConnectCleanup: the records are not freed
FailedConnectCleanup_NoFree == HidExit

\* main when connect_to_controller returned NULL: the records are freed, then
\* hid_exit()
FailedConnectCleanup == FreeAll("main") \o HidExit

\* main after connect_to_controller returned (show and pair commands)
MainAfterConnect ==
    /\ pc = "connect_ret"
    /\ cmd \in {"show", "pair"}
    /\ IF dev = NULL
       THEN /\ output' = Append(output, Report("connect_failed", <<>>))
            /\ calls' = calls \o FailedConnectCleanup
            /\ exit_code' = MainReturn(TRUE)
            /\ pc' = "exit"
       ELSE /\ pc' = IF cmd = "pair" THEN "pair_begin" ELSE "show_begin"
            /\ UNCHANGED <<output, exit_code, calls>>
    /\ UNCHANGED <<findVars, input, written0, mode, cmd, arg, controller, dev, is_ds4, buf, alt_buf, ret,
                   dump_i, ret_pc, written>>

(***************************************************************************)
(* The transport, as the program sees it                                   *)
(***************************************************************************)
\* what hid_get_device_info(dev) yields: NULL, or the ids of the opened device,
\* which are those of the controller record
DeviceInfos ==
    {[null |-> TRUE, vendor_id |-> 0, product_id |-> 0],
     [null |-> FALSE, vendor_id |-> controller.vendor_id,
      product_id |-> controller.product_id]}

\* is_dualshock4(dev), info being hid_get_device_info(dev)
is_dualshock4(info) ==
    /\ ~info.null
    /\ info.vendor_id = VENDOR_SONY
    /\ info.product_id = PRODUCT_DS4

\* b with its first Len(r) bytes replaced by r
Overlay(b, r) == [i \in 1..Len(b) |-> IF i <= Len(r) THEN r[i] ELSE b[i]]

ShortReads == {4, 7}

\* the addresses a get-feature-report can carry: any sample address in a run
\* from connect_to_controller, the address the controller holds in a whole run
Payloads == IF mode = "whole" THEN {Stored} ELSE SampleMacs

\* hid_get_feature_report(dev, b, sizeof(b)): the value returned, the response
\* and b afterwards.  The harness transport returns the last buffer it accepted.
GetOutcomes(b) ==
    IF mode = "harness"
    THEN {[ret |-> Len(written), resp |-> written, buf |-> Overlay(b, written)]}
    ELSE {[ret |-> -1, resp |-> <<>>, buf |-> b]}
         \cup {[ret |-> n,
                resp |-> SubSeq(<<b[1], 0>> \o m, 1, n),
                buf |-> Overlay(b, SubSeq(<<b[1], 0>> \o m, 1, n))]
                 : n \in ShortReads \cup {BUF_SIZE}, m \in Payloads}

GetCall(who, b, o) ==
    [op |-> "hid_get_feature_report", who |-> who, id |-> b[1], req |-> b,
     ret |-> o.ret, resp |-> o.resp]

\* hid_send_feature_report(dev, b, sizeof(b)): -1, or the number of bytes sent
SendOutcomes(b) == {-1, Len(b)}

SendCall(who, b, r) ==
    [op |-> "hid_send_feature_report", who |-> who, id |-> b[1], req |-> b,
     ret |-> r, resp |-> <<>>]

\* where pair_device and show_pairing return to
AfterPair == IF mode = "harness" THEN "show_begin" ELSE "close"

AfterShow == IF mode = "harness" THEN "done" ELSE "close"

(***************************************************************************)
(* pair_device (mac_utils.h:299-371)                                       *)
(***************************************************************************)
\* the length check and mac_to_bytes(mac, mac_len, buf + 2, sizeof(buf) - 2)
ValidateMac(mac, b) ==
    IF Len(mac) # 12 /\ Len(mac) # 17
    THEN [ok |-> FALSE, buf |-> b]
    ELSE LET r == mac_to_bytes(mac, SubSeq(b, 3, Len(b)))
         IN  [ok |-> r.ok, buf |-> SubSeq(b, 1, 2) \o r.out]

PairBegin ==
    /\ pc = "pair_begin"
    /\ \E info \in DeviceInfos : is_ds4' = is_dualshock4(info)
    /\ LET v == ValidateMac(arg, [Zeros(BUF_SIZE) EXCEPT ![1] = MAC_REPORT_ID])
       IN  /\ buf' = v.buf
           /\ IF v.ok
              THEN /\ pc' = "pair_send"
                   /\ UNCHANGED output
              ELSE /\ pc' = AfterPair
                   /\ output' = Append(output, Report("invalid_mac", <<>>))
    /\ UNCHANGED <<findVars, input, written0, mode, cmd, arg, controller, dev, alt_buf, ret, dump_i,
                   ret_pc, calls, written, exit_code>>

\* faulty variant of PairSendStd: a DualShock4 goes on to the alternatives whatever
\* the first send returned
PairSendStd_NoFailTest ==
    /\ pc = "pair_send"
    /\ \E r \in SendOutcomes(buf) :
         /\ ret' = r
         /\ calls' = Append(calls, SendCall("pair_device", buf, r))
         /\ written' = IF r # -1 THEN buf ELSE written
         /\ pc' = IF is_ds4 THEN "pair_send_12" ELSE "pair_report"
    /\ UNCHANGED <<findVars, input, written0, mode, cmd, arg, controller, dev, is_ds4, buf, alt_buf,
                   dump_i, ret_pc, output, exit_code>>

\* ret = hid_send_feature_report(dev, buf, sizeof(buf)), in either branch
PairSendStd ==
    /\ pc = "pair_send"
    /\ \E r \in SendOutcomes(buf) :
         /\ ret' = r
         /\ calls' = Append(calls, SendCall("pair_device", buf, r))
         /\ written' = IF r # -1 THEN buf ELSE written
         /\ pc' = IF is_ds4 /\ r = -1 THEN "pair_send_12" ELSE "pair_report"
    /\ UNCHANGED <<findVars, input, written0, mode, cmd, arg, controller, dev, is_ds4, buf, alt_buf,
                   dump_i, ret_pc, output, exit_code>>

\* faulty variant of PairSendAlt1: alt_buf is not copied from buf
PairSendAlt1_NoCopy ==
    /\ pc = "pair_send_12"
    /\ alt_buf' = [alt_buf EXCEPT ![1] = DS4_ALT_REPORT_1]
    /\ \E r \in SendOutcomes(alt_buf') :
         /\ ret' = r
         /\ calls' = Append(calls, SendCall("pair_device", alt_buf', r))
         /\ written' = IF r # -1 THEN alt_buf' ELSE written
         /\ pc' = IF r = -1 THEN "pair_send_81" ELSE "pair_report"
    /\ UNCHANGED <<findVars, input, written0, mode, cmd, arg, controller, dev, is_ds4, buf, dump_i,
                   ret_pc, output, exit_code>>

\* memcpy(alt_buf, buf); alt_buf[0] = 0x12; ret = hid_send_feature_report(alt_buf)
PairSendAlt1 ==
    /\ pc = "pair_send_12"
    /\ alt_buf' = [buf EXCEPT ![1] = DS4_ALT_REPORT_1]
    /\ \E r \in SendOutcomes(alt_buf') :
         /\ ret' = r
         /\ calls' = Append(calls, SendCall("pair_device", alt_buf', r))
         /\ written' = IF r # -1 THEN alt_buf' ELSE written
         /\ pc' = IF r = -1 THEN "pair_send_81" ELSE "pair_report"
    /\ UNCHANGED <<findVars, input, written0, mode, cmd, arg, controller, dev, is_ds4, buf, dump_i,
                   ret_pc, output, exit_code>>

\* faulty variant of PairSendAlt2: the value returned by the last send is not kept in ret
PairSendAlt2_StaleRet ==
    /\ pc = "pair_send_81"
    /\ alt_buf' = [alt_buf EXCEPT ![1] = DS4_ALT_REPORT_2]
    /\ \E r \in SendOutcomes(alt_buf') :
         /\ calls' = Append(calls, SendCall("pair_device", alt_buf', r))
         /\ written' = IF r # -1 THEN alt_buf' ELSE written
    /\ pc' = "pair_report"
    /\ UNCHANGED <<findVars, input, written0, mode, cmd, arg, controller, dev, is_ds4, buf, dump_i,
                   ret_pc, output, exit_code, ret>>

\* alt_buf[0] = 0x81; ret = hid_send_feature_report(alt_buf)
PairSendAlt2 ==
    /\ pc = "pair_send_81"
    /\ alt_buf' = [alt_buf EXCEPT ![1] = DS4_ALT_REPORT_2]
    /\ \E r \in SendOutcomes(alt_buf') :
         /\ ret' = r
         /\ calls' = Append(calls, SendCall("pair_device", alt_buf', r))
         /\ written' = IF r # -1 THEN alt_buf' ELSE written
    /\ pc' = "pair_report"
    /\ UNCHANGED <<findVars, input, written0, mode, cmd, arg, controller, dev, is_ds4, buf, dump_i,
                   ret_pc, output, exit_code>>

\* if (ret == -1) report the failure, else report the MAC and dump_device_info(dev)
PairReport ==
    /\ pc = "pair_report"
    /\ IF ret = -1
       THEN /\ output' = Append(output, Report("write_failed", <<>>))
            /\ pc' = AfterPair
            /\ UNCHANGED <<dump_i, ret_pc>>
       ELSE /\ output' = Append(output, Report("write_ok", SubSeq(buf, 3, 8)))
            /\ pc' = "dump"
            /\ dump_i' = 0
            /\ ret_pc' = AfterPair
    /\ UNCHANGED <<findVars, input, written0, mode, cmd, arg, controller, dev, is_ds4, buf, alt_buf, ret,
                   calls, written, exit_code>>

(***************************************************************************)
(* show_pairing (mac_utils.h:376-445)                                      *)
(***************************************************************************)
\* memset(buf, 0, sizeof(buf)); buf[0] = id (buf[1] stays 0x0)
Request(id) == [Zeros(BUF_SIZE) EXCEPT ![1] = id]

\* faulty variant of ReadFailed: only an error return counts as a failed attempt
ReadFailed_OnlyError(r) == r = -1

\* the test that an attempt of show_pairing failed: ret < 8
ReadFailed(r) == r < BUF_SIZE

\* faulty variant of ShownMac: the six bytes are taken one place early
ShownMac_Shifted(b) == SubSeq(b, 2, 7)

\* the MAC show_pairing prints: buf[2], ..., buf[7]
ShownMac(b) == SubSeq(b, 3, 8)

\* faulty variant of WantsDump: the dump is made whatever the answer
WantsDump_Always(answer) == TRUE

\* response[0] == 'y' || response[0] == 'Y' (fgets gave a line)
WantsDump(answer) == answer \in {"y", "Y"}

ShowBegin ==
    /\ pc = "show_begin"
    /\ \E info \in DeviceInfos : is_ds4' = is_dualshock4(info)
    /\ buf' = Request(MAC_REPORT_ID)
    /\ pc' = "show_get"
    /\ UNCHANGED <<findVars, input, written0, mode, cmd, arg, controller, dev, alt_buf, ret, dump_i,
                   ret_pc, calls, output, written, exit_code>>

\* ret = hid_get_feature_report(dev, buf, sizeof(buf)), in either branch
ShowGetStd ==
    /\ pc = "show_get"
    /\ \E o \in GetOutcomes(buf) :
         /\ ret' = o.ret
         /\ buf' = o.buf
         /\ calls' = Append(calls, GetCall("show_pairing", buf, o))
         /\ pc' = IF is_ds4 /\ ReadFailed(o.ret) THEN "show_get_12" ELSE "show_report"
    /\ UNCHANGED <<findVars, input, written0, mode, cmd, arg, controller, dev, is_ds4, alt_buf, dump_i,
                   ret_pc, output, written, exit_code>>

\* memset(buf); buf[0] = 0x12; ret = hid_get_feature_report(dev, buf, sizeof(buf))
ShowGetAlt1 ==
    /\ pc = "show_get_12"
    /\ \E o \in GetOutcomes(Request(DS4_ALT_REPORT_1)) :
         /\ ret' = o.ret
         /\ buf' = o.buf
         /\ calls' = Append(calls, GetCall("show_pairing", Request(DS4_ALT_REPORT_1), o))
         /\ pc' = IF ReadFailed(o.ret) THEN "show_get_81" ELSE "show_report"
    /\ UNCHANGED <<findVars, input, written0, mode, cmd, arg, controller, dev, is_ds4, alt_buf, dump_i,
                   ret_pc, output, written, exit_code>>

\* memset(buf); buf[0] = 0x81; ret = hid_get_feature_report(dev, buf, sizeof(buf))
ShowGetAlt2 ==
    /\ pc = "show_get_81"
    /\ \E o \in GetOutcomes(Request(DS4_ALT_REPORT_2)) :
         /\ ret' = o.ret
         /\ buf' = o.buf
         /\ calls' = Append(calls, GetCall("show_pairing", Request(DS4_ALT_REPORT_2), o))
    /\ pc' = "show_report"
    /\ UNCHANGED <<findVars, input, written0, mode, cmd, arg, controller, dev, is_ds4, alt_buf, dump_i,
                   ret_pc, output, written, exit_code>>

\* what fgets(response) gives at the prompt: NULL, or a line
Answers == {"EOF", "y", "Y", "n"}

\* if (ret < 8) report the failure and return; else print buf[2..7], prompt, and
\* dump_device_info(dev) when the answer starts with y or Y
ShowReport ==
    /\ pc = "show_report"
    /\ IF ReadFailed(ret)
       THEN /\ output' = Append(output, Report("read_failed", <<>>))
            /\ pc' = AfterShow
            /\ UNCHANGED <<dump_i, ret_pc, input>>
       ELSE /\ output' = Append(output, Report("mac", ShownMac(buf)))
            /\ \E answer \in Answers :
                 /\ input' = Append(input, answer)
                 /\ IF WantsDump(answer)
                    THEN /\ pc' = "dump"
                         /\ dump_i' = 0
                         /\ ret_pc' = AfterShow
                    ELSE /\ pc' = AfterShow
                         /\ UNCHANGED <<dump_i, ret_pc>>
    /\ UNCHANGED <<findVars, written0, mode, cmd, arg, controller, dev, is_ds4, buf,
                   alt_buf, ret, calls, written, exit_code>>

(***************************************************************************)
(* dump_device_info (mac_utils.h:167-294)                                  *)
(***************************************************************************)
\* the report IDs requested, in order: 0xF2, 0xF5, 0xA3, 0x01, then report_ids[]
\* (none of which is skipped)
DumpReportIds ==
    <<242, MAC_REPORT_ID, 163, 1,
      0, 2, 16, 18, 129, 160, 240, 241, 243, 244, 246, 247, 248, 249, 250>>

\* one hid_get_feature_report(dev, report_buf, sizeof(report_buf)) of the dump.
\* What it returns only selects the text printed, which is not modelled, so the
\* history keeps the request alone.
DumpGet ==
    /\ pc = "dump"
    /\ dump_i < Len(DumpReportIds)
    /\ dump_i' = dump_i + 1
    /\ calls' = Append(calls, [op |-> "hid_get_feature_report",
                               who |-> "dump_device_info",
                               id |-> DumpReportIds[dump_i + 1]])
    /\ pc' = IF dump_i + 1 = Len(DumpReportIds) THEN ret_pc ELSE "dump"
    /\ UNCHANGED <<findVars, input, written0, mode, cmd, arg, controller, dev, is_ds4, buf, alt_buf, ret,
                   ret_pc, output, written, exit_code>>

(***************************************************************************)
(* dump_controller_info after connect_to_controller (ui.c:144-165) and the *)
(* end of main                                                             *)
(***************************************************************************)
DumpAfterConnect ==
    /\ pc = "connect_ret"
    /\ cmd = "dump"
    /\ IF dev = NULL
       THEN /\ output' = Append(output, Report("connect_failed", <<>>))
            /\ calls' = calls \o FreeAll("dump_controller_info") \o HidExit
            /\ exit_code' = 1
            /\ pc' = "exit"
            /\ UNCHANGED <<dump_i, ret_pc>>
       ELSE /\ pc' = "dump"
            /\ dump_i' = 0
            /\ ret_pc' = "close"
            /\ UNCHANGED <<output, exit_code, calls>>
    /\ UNCHANGED <<findVars, input, written0, mode, cmd, arg, controller, dev, is_ds4, buf, alt_buf, ret,
                   written>>

\* faulty variant of CloseDev: the handle is left open
CloseDev_Skipped == <<>>

\* hid_close(dev)
CloseDev == <<[op |-> "hid_close", who |-> cmd, id |-> dev.id]>>

\* main: hid_close(dev); the records are freed; hid_exit(); return 0.
\* dump_controller_info (ui.c:152-165): hid_close(dev); the records are freed;
\* it returns 0, which main returns after hid_exit().
MainClose ==
    /\ pc = "close"
    /\ calls' = calls \o CloseDev
                  \o FreeAll(IF cmd = "dump" THEN "dump_controller_info" ELSE "main")
                  \o HidExit
    /\ exit_code' = 0
    /\ pc' = "exit"
    /\ UNCHANGED <<findVars, input, written0, mode, cmd, arg, controller, dev, is_ds4, buf, alt_buf, ret,
                   dump_i, ret_pc, output, written>>

Next ==
    \/ ConnectOpenPath
    \/ ConnectOpenStd
    \/ ConnectRetry
    \/ RawLookup
    \/ RawOpen
    \/ MainAfterConnect
    \/ DumpAfterConnect
    \/ PairBegin
    \/ PairSendStd
    \/ PairSendAlt1
    \/ PairSendAlt2
    \/ PairReport
    \/ ShowBegin
    \/ ShowGetStd
    \/ ShowGetAlt1
    \/ ShowGetAlt2
    \/ ShowReport
    \/ DumpGet
    \/ MainClose

Spec == Init /\ [][Next]_vars

(***************************************************************************)
(* The write/read consistency scenario: pair_device and then show_pairing  *)
(* on one live handle of a transport that keeps the last buffer it         *)
(* accepted and returns it to every get-feature-report.                    *)
(***************************************************************************)
InitHarness ==
    /\ mode = "harness"
    /\ cmd = "pair"
    /\ arg \in WellFormedArgs
    /\ controller \in Controllers
    /\ pc = "pair_begin"
    /\ dev = [id |-> 1, route |-> "harness"]
    /\ is_ds4 = FALSE
    /\ buf = Zeros(BUF_SIZE)
    /\ alt_buf = Zeros(BUF_SIZE)
    /\ ret = 0
    /\ dump_i = 0
    /\ ret_pc = "none"
    /\ calls = <<>>
    /\ output = <<>>
    /\ written \in InitialWritten
    /\ exit_code = -1
    /\ input = <<>>
    /\ written0 = written
    /\ argv = <<arg>>
    /\ attached = <<Descriptor(controller.vendor_id, controller.product_id,
                               controller.interface_number, controller.path)>>
    /\ devs = [id |-> 0, list |-> <<>>]
    /\ cur_dev = 1
    /\ controllers = <<controller>>
    /\ controller_count = 1
    /\ max_controllers = MAX_CONTROLLERS
    /\ selected_index = 0
    /\ heap = TRUE
    /\ stdin_eof = FALSE

NextHarness ==
    \/ PairBegin
    \/ PairSendStd
    \/ PairSendAlt1
    \/ PairSendAlt2
    \/ PairReport
    \/ ShowBegin
    \/ ShowGetStd
    \/ ShowReport
    \/ DumpGet

SpecHarness == InitHarness /\ [][NextHarness]_vars

(***************************************************************************)
(* find_controllers (controller_info.c:135-179)                            *)
(***************************************************************************)
\* the variables find_controllers leaves alone
callerVars == <<envVars, mode, argv, attached, max_controllers, selected_index, cmd,
                arg, controller, dev, is_ds4, buf, alt_buf, ret, dump_i,
                ret_pc, output, written, exit_code, input, written0>>

\* hid_enumerate(vendor_id, 0): the attached devices of that vendor, all of
\* them when vendor_id is 0
hid_enumerate(vendor_id) ==
    SelectSeq(attached, LAMBDA d : vendor_id = 0 \/ d.vendor_id = vendor_id)

EnumerateCall(who, vendor_id) ==
    [op |-> "hid_enumerate", who |-> who, id |-> Len(calls) + 1, vendor |-> vendor_id]

FreeEnumerationCall(who, id) == [op |-> "hid_free_enumeration", who |-> who, id |-> id]

\* devs = hid_enumerate(VENDOR_SONY, 0); cur_dev = devs; controller_count = 0
FindEnumerate ==
    /\ pc = "find"
    /\ devs' = [id |-> Len(calls) + 1, list |-> hid_enumerate(VENDOR_SONY)]
    /\ calls' = Append(calls, EnumerateCall("find_controllers", VENDOR_SONY))
    /\ cur_dev' = 1
    /\ controllers' = <<>>
    /\ controller_count' = 0
    /\ pc' = "find_scan"
    /\ UNCHANGED callerVars

\* controllers[controller_count] = info
StoreAt(array, index, info) ==
    [i \in 1..(IF index + 1 > Len(array) THEN index + 1 ELSE Len(array)) |->
        IF i = index + 1 THEN info ELSE array[i]]

\* malloc(sizeof(controller_info_t)) yields memory or NULL, and NULL alone once
\* the allocator is exhausted
MallocOutcomes == IF heap THEN BOOLEAN ELSE {FALSE}

\* one test of the while condition and, when it holds, one run of the body.
\* When create_controller_info returns NULL the body ends at "continue", with
\* nothing changed.
FindScan ==
    /\ pc = "find_scan"
    /\ IF cur_dev <= Len(devs.list) /\ controller_count < max_controllers
       THEN LET d == devs.list[cur_dev]
            IN  IF d.vendor_id = VENDOR_SONY
                   /\ is_supported_controller(d.vendor_id, d.product_id)
                THEN \E malloc_ok \in MallocOutcomes :
                       IF malloc_ok
                       THEN /\ controllers' = StoreAt(controllers, controller_count,
                                                      create_controller_info(d))
                            /\ controller_count' = controller_count + 1
                            /\ cur_dev' = cur_dev + 1
                            /\ UNCHANGED pc
                       ELSE UNCHANGED <<controllers, controller_count, cur_dev, pc>>
                ELSE /\ cur_dev' = cur_dev + 1
                     /\ UNCHANGED <<controllers, controller_count, pc>>
       ELSE /\ pc' = "find_sort"
            /\ UNCHANGED <<controllers, controller_count, cur_dev>>
    /\ UNCHANGED <<devs, calls, callerVars>>

\* faulty variant of ShouldSwap: no record is ever moved
ShouldSwap_Never(ci, cj) == FALSE

\* faulty variant of ShouldSwap: a preferred record moves ahead of any record
ShouldSwap_AnyRecord(ci, cj) == cj.is_preferred

\* controllers[j]->is_preferred && !controllers[i]->is_preferred
ShouldSwap(ci, cj) == cj.is_preferred /\ ~ci.is_preferred

Swap(c, i, j) == [c EXCEPT ![i] = c[j], ![j] = c[i]]

\* the two nested loops, from the test of j < n on; i and j are the C values
RECURSIVE sort_loop(_, _, _, _)
sort_loop(c, i, j, n) ==
    IF ~(i < n - 1)
    THEN c
    ELSE IF ~(j < n)
         THEN sort_loop(c, i + 1, i + 2, n)
         ELSE sort_loop(IF ShouldSwap(c[i + 1], c[j + 1])
                        THEN Swap(c, i + 1, j + 1) ELSE c,
                        i, j + 1, n)

\* the sorting loops of find_controllers
FindSort ==
    /\ pc = "find_sort"
    /\ controllers' = sort_loop(controllers, 0, 1, controller_count)
    /\ pc' = "find_free"
    /\ UNCHANGED <<devs, cur_dev, controller_count, calls, callerVars>>

\* hid_free_enumeration(devs); return controller_count
FindReturn ==
    /\ pc = "find_free"
    /\ calls' = Append(calls, FreeEnumerationCall("find_controllers", devs.id))
    /\ pc' = "found"
    /\ UNCHANGED <<devs, cur_dev, controllers, controller_count, callerVars>>

(***************************************************************************)
(* main up to connect_to_controller (part_005:504-593), list_devices       *)
(* (ui.c:25-113), dump_controller_info up to its connection                *)
(* (ui.c:118-144) and select_controller (ui.c:195-231)                     *)
(***************************************************************************)
\* the variables of the connection and of the pairing operations
pairVars == <<dev, is_ds4, buf, alt_buf, ret, dump_i, ret_pc, written, input,
              written0>>

\* the variables of find_controllers
scanVars == <<devs, cur_dev, controllers, controller_count>>

argc == Len(argv) + 1

\* strncmp(s, prefix, strlen(prefix)) == 0
StartsWith(s, prefix) ==
    /\ Len(s) >= Len(prefix)
    /\ SubSeq(s, 1, Len(prefix)) = prefix

\* if (hid_init() != 0) return 1
MainInit ==
    /\ pc = "main"
    /\ \E ok \in BOOLEAN :
         /\ calls' = Append(calls, [op |-> "hid_init", who |-> "main", ok |-> ok])
         /\ IF ok
            THEN /\ pc' = "dispatch"
                 /\ UNCHANGED <<output, exit_code>>
            ELSE /\ output' = Append(output, Report("init_failed", <<>>))
                 /\ exit_code' = 1
                 /\ pc' = "exit"
    /\ UNCHANGED <<envVars, mode, argv, attached, max_controllers, selected_index, cmd,
                   arg, controller, scanVars, pairVars>>

\* the test of part_005:517-518
WantsUsage ==
    \/ argc # 1 /\ argc # 2
    \/ argc = 2 /\ (StartsWith(argv[1], <<"-", "h">>)
                    \/ StartsWith(argv[1], <<"-", "-", "h", "e", "l", "p">>))

\* the test of part_005:526
WantsOption ==
    argc = 2 /\ (StartsWith(argv[1], <<"-", "l">>)
                 \/ StartsWith(argv[1], <<"-", "a">>)
                 \/ StartsWith(argv[1], <<"-", "d">>))

\* faulty variant of UsageCleanup: the library is not shut down
UsageCleanup_NoExit == <<>>

\* hid_exit() after show_usage
UsageCleanup == HidExit

\* show_usage(argv[0]); hid_exit(); return 0
MainUsage ==
    /\ pc = "dispatch"
    /\ WantsUsage
    /\ output' = Append(output, Report("usage", <<>>))
    /\ calls' = calls \o UsageCleanup
    /\ exit_code' = 0
    /\ pc' = "exit"
    /\ UNCHANGED <<envVars, mode, argv, attached, max_controllers, selected_index, cmd,
                   arg, controller, scanVars, pairVars>>

\* list_devices(list_all): one enumeration, walked to its end and released
list_devices(list_all) ==
    <<EnumerateCall("list_devices", IF list_all THEN 0 ELSE VENDOR_SONY),
      FreeEnumerationCall("list_devices", Len(calls) + 1)>>

\* -l and -a: result = list_devices(..); hid_exit(); return result
MainList ==
    /\ pc = "dispatch"
    /\ ~WantsUsage
    /\ WantsOption
    /\ StartsWith(argv[1], <<"-", "l">>) \/ StartsWith(argv[1], <<"-", "a">>)
    /\ output' = Append(output, Report("list", <<>>))
    /\ calls' = calls \o list_devices(~StartsWith(argv[1], <<"-", "l">>)) \o HidExit
    /\ exit_code' = 0
    /\ pc' = "exit"
    /\ UNCHANGED <<envVars, mode, argv, attached, max_controllers, selected_index, cmd,
                   arg, controller, scanVars, pairVars>>

\* -d: dump_controller_info(), which begins with find_controllers
MainDump ==
    /\ pc = "dispatch"
    /\ ~WantsUsage
    /\ WantsOption
    /\ ~StartsWith(argv[1], <<"-", "l">>) /\ ~StartsWith(argv[1], <<"-", "a">>)
    /\ cmd' = "dump"
    /\ pc' = "find"
    /\ UNCHANGED <<envVars, mode, argv, attached, max_controllers, selected_index, arg,
                   controller, calls, output, exit_code, scanVars, pairVars>>

\* no option: main goes on to find_controllers; with one argument it will call
\* pair_device(dev, argv[1], strlen(argv[1])), with none show_pairing(dev)
MainCommand ==
    /\ pc = "dispatch"
    /\ ~WantsUsage
    /\ ~WantsOption
    /\ cmd' = IF argc = 2 THEN "pair" ELSE "show"
    /\ arg' = IF argc = 2 THEN argv[1] ELSE <<>>
    /\ pc' = "find"
    /\ UNCHANGED <<envVars, mode, argv, attached, max_controllers, selected_index,
                   controller, calls, output, exit_code, scanVars, pairVars>>

\* main after find_controllers returned: if (controller_count == 0) the error
\* is reported, hid_exit(), return 1
MainAfterFind ==
    /\ pc = "found"
    /\ cmd \in {"show", "pair"}
    /\ IF controller_count = 0
       THEN /\ output' = Append(output, Report("no_controller", <<>>))
            /\ calls' = calls \o HidExit
            /\ exit_code' = MainReturn(TRUE)
            /\ pc' = "exit"
       ELSE /\ pc' = "select"
            /\ UNCHANGED <<output, calls, exit_code>>
    /\ UNCHANGED <<envVars, mode, argv, attached, max_controllers, selected_index, cmd,
                   arg, controller, scanVars, pairVars>>

\* dump_controller_info after find_controllers returned: return 1 when there
\* is no controller (main then calls hid_exit and returns 1), else
\* connect_to_controller(controllers[0])
DumpAfterFind ==
    /\ pc = "found"
    /\ cmd = "dump"
    /\ IF controller_count = 0
       THEN /\ output' = Append(output, Report("no_controller", <<>>))
            /\ calls' = calls \o HidExit
            /\ exit_code' = 1
            /\ pc' = "exit"
            /\ UNCHANGED controller
       ELSE /\ controller' = controllers[1]
            /\ pc' = "connect_path"
            /\ UNCHANGED <<output, calls, exit_code>>
    /\ UNCHANGED <<envVars, mode, argv, attached, max_controllers, selected_index, cmd,
                   arg, scanVars, pairVars>>

\* atoi on a line without leading blanks or sign: the value of its leading digits
RECURSIVE atoi_loop(_, _, _)
atoi_loop(s, i, acc) ==
    IF i <= Len(s) /\ s[i] \in Range(DecDigits)
    THEN atoi_loop(s, i + 1, acc * 10 + (IndexOf(DecDigits, s[i]) - 1))
    ELSE acc

atoi(s) == atoi_loop(s, 1, 0)

\* what fgets(input, sizeof(input), stdin) can yield at the selection prompt:
\* NULL, or a line
SelectReads ==
    {[null |-> TRUE, line |-> <<>>]}
      \cup {[null |-> FALSE, line |-> l] :
              l \in {<<"0">>, <<"1">>, <<"2">>, <<"3">>, <<"x">>, <<"2", "x">>, <<>>}}

\* once fgets has returned NULL at the end of stdin it returns NULL again
FgetsOutcomes == IF stdin_eof THEN {[null |-> TRUE, line |-> <<>>]} ELSE SelectReads

\* main once select_controller returned index: a negative index frees the
\* records and returns 1, any other one is connected to
AfterSelect(index) ==
    /\ selected_index' = index
    /\ IF index < 0
       THEN /\ output' = Append(output, Report("invalid_selection", <<>>))
            /\ calls' = calls \o FreeAll("main") \o HidExit
            /\ exit_code' = 1
            /\ pc' = "exit"
            /\ UNCHANGED controller
       ELSE /\ controller' = controllers[index + 1]
            /\ pc' = "connect_path"
            /\ UNCHANGED <<output, calls, exit_code>>

\* select_controller: 0 at once with one controller; otherwise one pass of the
\* while loop, which ends the function when the line read is a number in
\* 1..controller_count and changes nothing otherwise
MainSelect ==
    /\ pc = "select"
    /\ IF controller_count = 1
       THEN AfterSelect(0) /\ UNCHANGED stdin_eof
       ELSE \E in \in FgetsOutcomes :
              IF in.null
              THEN /\ stdin_eof' = TRUE
                   /\ UNCHANGED <<selected_index, output, calls, exit_code,
                                  controller, pc>>
              ELSE IF atoi(in.line) >= 1 /\ atoi(in.line) <= controller_count
                   THEN AfterSelect(atoi(in.line) - 1) /\ UNCHANGED stdin_eof
                   ELSE UNCHANGED <<selected_index, output, calls, exit_code,
                                    controller, pc, stdin_eof>>
    /\ UNCHANGED <<heap, mode, argv, attached, max_controllers, cmd, arg, scanVars,
                   pairVars>>

(***************************************************************************)
(* Whole runs of main, and single calls of find_controllers                *)
(***************************************************************************)
\* the kinds of attached device: SixAxis, Move, a DualShock4 on interface 0
\* and on its HID interface, a Sony product outside the table (0x05c4), and a
\* device of another vendor (0x045e)
DeviceKinds ==
    <<[v |-> VENDOR_SONY, p |-> PRODUCT_SIXAXIS, n |-> 0],
      [v |-> VENDOR_SONY, p |-> PRODUCT_MOVE, n |-> 0],
      [v |-> VENDOR_SONY, p |-> PRODUCT_DS4, n |-> 0],
      [v |-> VENDOR_SONY, p |-> PRODUCT_DS4, n |-> DS4_HID_INTERFACE],
      [v |-> VENDOR_SONY, p |-> 1476, n |-> DS4_HID_INTERFACE],
      [v |-> 1118, p |-> PRODUCT_DS4, n |-> DS4_HID_INTERFACE]>>

\* the attached devices whose kinds are ks, in that order
Attach(ks) ==
    [i \in 1..Len(ks) |->
        Descriptor(DeviceKinds[ks[i]].v, DeviceKinds[ks[i]].p, DeviceKinds[ks[i]].n, i)]

\* the hosts of the whole runs: nothing attached, nothing supported, one
\* SixAxis, one DualShock4 interface 0, both interfaces of a DualShock4, and a
\* SixAxis with a foreign device and a DualShock4
AttachedSamples ==
    {Attach(ks) : ks \in {<<>>, <<5, 6>>, <<1>>, <<3>>, <<3, 4>>, <<1, 6, 4>>}}

\* argv[1] values that start with '-': the options, longer spellings of them,
\* and a 12-character one
OptionArgs ==
    { <<"-", "h">>, <<"-", "-", "h", "e", "l", "p">>, <<"-", "l">>,
      <<"-", "a">>, <<"-", "a", "l", "l">>, <<"-", "d">>,
      <<"-", "0", "0", "1", "1", "2", "2", "3", "3", "4", "4", "5">> }

\* the command lines of the whole runs
ArgvSamples ==
    {<<>>} \cup {<<a>> : a \in Args \cup OptionArgs}
           \cup {<<a, a>> : a \in ColonPaddedArgs}

\* the record variable before a controller is selected
NoController == create_controller_info(Descriptor(0, 0, 0, 0))

InitMain ==
    /\ mode = "whole"
    /\ argv \in ArgvSamples
    /\ attached \in AttachedSamples
    /\ max_controllers = MAX_CONTROLLERS
    /\ pc = "main"
    /\ cmd = "none"
    /\ arg = <<>>
    /\ controller = NoController
    /\ devs = [id |-> 0, list |-> <<>>]
    /\ cur_dev = 1
    /\ controllers = <<>>
    /\ controller_count = 0
    /\ selected_index = -1
    /\ heap \in BOOLEAN
    /\ stdin_eof = FALSE
    /\ dev = NULL
    /\ is_ds4 = FALSE
    /\ buf = Zeros(BUF_SIZE)
    /\ alt_buf = Zeros(BUF_SIZE)
    /\ ret = 0
    /\ dump_i = 0
    /\ ret_pc = "none"
    /\ calls = <<>>
    /\ output = <<>>
    /\ written \in InitialWritten
    /\ exit_code = -1
    /\ input = <<>>
    /\ written0 = written

NextMain ==
    \/ MainInit
    \/ MainUsage
    \/ MainList
    \/ MainDump
    \/ MainCommand
    \/ FindEnumerate
    \/ FindScan
    \/ FindSort
    \/ FindReturn
    \/ MainAfterFind
    \/ DumpAfterFind
    \/ MainSelect
    \/ ConnectOpenPath
    \/ ConnectOpenStd
    \/ ConnectRetry
    \/ RawLookup
    \/ RawOpen
    \/ MainAfterConnect
    \/ DumpAfterConnect
    \/ PairBegin
    \/ PairSendStd
    \/ PairSendAlt1
    \/ PairSendAlt2
    \/ PairReport
    \/ ShowBegin
    \/ ShowGetStd
    \/ ShowGetAlt1
    \/ ShowGetAlt2
    \/ ShowReport
    \/ DumpGet
    \/ MainClose

SpecMain == InitMain /\ [][NextMain]_vars

\* the most devices attached in a call of find_controllers
MaxDevices == 3

\* the largest cap passed to find_controllers
MaxCap == 3

InitFind ==
    /\ mode = "find"
    /\ argv = <<>>
    /\ attached \in {Attach(ks) : ks \in UNION {[1..k -> 1..Len(DeviceKinds)] : k \in 0..MaxDevices}}
    /\ max_controllers \in 1..MaxCap
    /\ pc = "find"
    /\ cmd = "none"
    /\ arg = <<>>
    /\ controller = NoController
    /\ devs = [id |-> 0, list |-> <<>>]
    /\ cur_dev = 1
    /\ controllers = <<>>
    /\ controller_count = 0
    /\ selected_index = -1
    /\ heap \in BOOLEAN
    /\ stdin_eof = FALSE
    /\ dev = NULL
    /\ is_ds4 = FALSE
    /\ buf = Zeros(BUF_SIZE)
    /\ alt_buf = Zeros(BUF_SIZE)
    /\ ret = 0
    /\ dump_i = 0
    /\ ret_pc = "none"
    /\ calls = <<>>
    /\ output = <<>>
    /\ written \in {<<MAC_REPORT_ID, 0>> \o SampleMac(1)}
    /\ exit_code = -1
    /\ input = <<>>
    /\ written0 = written

NextFind ==
    \/ FindEnumerate
    \/ FindScan
    \/ FindSort
    \/ FindReturn

SpecFind == InitFind /\ [][NextFind]_vars

(***************************************************************************)
(* The MAC codec on its own: bytes_to_mac_string (mac_utils.c:74-95), and  *)
(* the parsing of pair_device (mac_utils.h:311-323) followed by its writes *)
(***************************************************************************)
\* the number of strides of the byte arrays that are formatted
NumStrides == 2

\* six-byte arrays in which every byte value occurs at every place
RoundTripBytes ==
    {[i \in 1..6 |-> (v + (i - 1) * 17 * k) % 256] : v \in 0..255, k \in 0..(NumStrides - 1)}

\* one address in its two textual forms
Text17 == bytes_to_mac_string(SampleMac(1), TRUE)

Text12 == bytes_to_mac_string(SampleMac(1), FALSE)

Substitute(s, i, c) == [s EXCEPT ![i] = c]

Delete(s, i) == SubSeq(s, 1, i - 1) \o SubSeq(s, i + 1, Len(s))

Insert(s, i, c) == SubSeq(s, 1, i - 1) \o <<c>> \o SubSeq(s, i, Len(s))

Colons(n) == [i \in 1..n |-> ":"]

\* the texts given to the parser: the two forms, each with one character
\* replaced, removed or added, their prefixes, and 17-character texts made of
\* colons before or after the first hex digits of the address
ParseTexts ==
    UNION {{t}
           \cup {Substitute(t, i, c) : i \in 1..Len(t), c \in {":", "g", "-", "F"}}
           \cup {Delete(t, i) : i \in 1..Len(t)}
           \cup {Insert(t, i, c) : i \in 1..(Len(t) + 1), c \in {":", "0"}}
           \cup {SubSeq(t, 1, n) : n \in 0..Len(t)}
             : t \in {Text17, Text12}}
      \cup {Colons(k) \o SubSeq(Text12, 1, 17 - k) : k \in 5..17}
      \cup {SubSeq(Text12, 1, 17 - k) \o Colons(k) : k \in 5..17}

\* cmd "colons" and "plain": bytes_to_mac_string(in, in_len, use_colons) on the
\* bytes held in written, the text going on to pair_device
CodecFormat ==
    /\ pc = "format"
    /\ arg' = bytes_to_mac_string(Stored, cmd = "colons")
    /\ pc' = "pair_begin"
    /\ UNCHANGED <<findVars, input, written0, mode, cmd, controller, dev, is_ds4,
                   buf, alt_buf, ret, dump_i, ret_pc, calls, output, written,
                   exit_code>>

InitCodec ==
    /\ mode = "codec"
    /\ cmd \in {"colons", "plain", "parse"}
    /\ arg \in IF cmd = "parse" THEN ParseTexts ELSE {<<>>}
    /\ written \in IF cmd = "parse"
                   THEN {<<MAC_REPORT_ID, 0>> \o SampleMac(2)}
                   ELSE {<<MAC_REPORT_ID, 0>> \o b : b \in RoundTripBytes}
    /\ pc = IF cmd = "parse" THEN "pair_begin" ELSE "format"
    /\ controller = create_controller_info(
                       Descriptor(VENDOR_SONY, PRODUCT_DS4, DS4_HID_INTERFACE, 1))
    /\ dev = [id |-> 1, route |-> "codec"]
    /\ is_ds4 = FALSE
    /\ buf = Zeros(BUF_SIZE)
    /\ alt_buf = Zeros(BUF_SIZE)
    /\ ret = 0
    /\ dump_i = 0
    /\ ret_pc = "none"
    /\ calls = <<>>
    /\ output = <<>>
    /\ exit_code = -1
    /\ input = <<>>
    /\ written0 = written
    /\ argv = <<>>
    /\ attached = <<Descriptor(controller.vendor_id, controller.product_id,
                               controller.interface_number, controller.path)>>
    /\ devs = [id |-> 0, list |-> <<>>]
    /\ cur_dev = 1
    /\ controllers = <<controller>>
    /\ controller_count = 1
    /\ max_controllers = MAX_CONTROLLERS
    /\ selected_index = 0
    /\ heap = TRUE
    /\ stdin_eof = FALSE

NextCodec ==
    \/ CodecFormat
    \/ PairBegin
    \/ PairSendStd
    \/ PairSendAlt1
    \/ PairSendAlt2
    \/ PairReport

SpecCodec == InitCodec /\ [][NextCodec]_vars

\* runs in which the scheduler keeps the program running
SpecFindFair == InitFind /\ [][NextFind]_vars /\ WF_vars(NextFind)

SpecMainFair == InitMain /\ [][NextMain]_vars /\ WF_vars(NextMain)

(***************************************************************************)
(* Properties of the connection strategy                                   *)
(***************************************************************************)
IsOpen(c) == c.op \in {"hid_open_path", "hid_open"}

\* the open attempts made so far, in order
Opens == SelectSeq(calls, IsOpen)

Routes(s) == [i \in 1..Len(s) |-> s[i].who]

IsPrefix(s, t) == Len(s) <= Len(t) /\ SubSeq(t, 1, Len(s)) = s

\* connect_to_controller is running
Connecting == pc \in {"connect_path", "connect_std", "connect_retry", "raw_popen", "raw_open"}

Connected == mode = "main" /\ ~Connecting

IsDS4Record == controller.product_id = PRODUCT_DS4

RouteOrder == IF IsDS4Record THEN <<"path", "vidpid", "raw">>
              ELSE <<"path", "vidpid", "retry">>

\* the raw-device lookups made so far
RawLookups == SelectSeq(calls, LAMBDA c : c.op = "popen")

\* the positions in calls of the opens that yielded a handle
Yielded == {i \in 1..Len(calls) : IsOpen(calls[i]) /\ calls[i].ok}

\* C1: the routes are attempted in the order path, vendor/product, third step
\* of the record's kind; each attempt follows failures only; on return the
\* handle is the one of the first (and only) route that succeeded, and NULL is
\* returned only when every applicable route failed.
C1_RouteOrder ==
    /\ IsPrefix(Routes(Opens), RouteOrder)
    /\ \A i \in 1..Len(Opens) - 1 : ~Opens[i].ok
    /\ Connected =>
         /\ Len(Opens) >= 1
         /\ Yielded # {} =>
              LET i == CHOOSE j \in Yielded : \A k \in Yielded : j <= k
              IN  dev = [id |-> i, route |-> calls[i].who]
         /\ Yielded = {} =>
              /\ dev = NULL
              /\ IF IsDS4Record
                 THEN /\ Len(RawLookups) = 1
                      /\ Len(Opens) = (IF RawLookups[1].ok THEN 3 ELSE 2)
                 ELSE Len(Opens) = 3

\* a handle obtained by the third step is returned after two failed routes
C1_Witness ==
    /\ Connected
    /\ dev # NULL
    /\ dev.route = "retry"
    /\ Len(Opens) = 3

\* the outcomes of the simulated transport of C2, read from the history: the
\* path open and the vendor/product open fail wherever they are tried, the raw
\* lookup and the raw open succeed wherever they are tried
C2_Transport ==
    \A i \in 1..Len(calls) :
        calls[i].op \in {"hid_open_path", "hid_open", "popen"} =>
            (calls[i].ok <=> calls[i].who = "raw")

\* C2: for a DualShock4 record, when the path open fails, the vendor/product
\* open fails and the raw-device open succeeds, the handle returned is the raw
\* one and exactly three opens were made: path, vendor/product, raw device.
C2_RawFallback ==
    (Connected /\ IsDS4Record /\ C2_Transport) =>
        /\ dev # NULL
        /\ dev.route = "raw"
        /\ Routes(Opens) = <<"path", "vidpid", "raw">>
        /\ [i \in 1..Len(Opens) |-> Opens[i].ok] = <<FALSE, FALSE, TRUE>>

C2_Witness ==
    /\ Connected
    /\ IsDS4Record
    /\ C2_Transport
    /\ dev.route = "raw"
    /\ exit_code = 0

\* the calls of hid_open(vendor_id, product_id, NULL) made so far
StdOpens == SelectSeq(calls, LAMBDA c : c.op = "hid_open")

\* C3: a record that is not a DualShock4 gets, after the path open and the
\* vendor/product open failed, exactly one more vendor/product open and never
\* the raw-device route; a DualShock4 record gets the raw-device route instead
\* and never a second vendor/product open.
C3_ThirdStep ==
    /\ ~IsDS4Record =>
         /\ \A i \in 1..Len(calls) : calls[i].who # "raw"
         /\ (Connected /\ Len(Opens) >= 2 /\ ~Opens[1].ok /\ ~Opens[2].ok) =>
              /\ Len(StdOpens) = 2
              /\ Routes(Opens) = <<"path", "vidpid", "retry">>
    /\ IsDS4Record =>
         /\ Len(StdOpens) <= 1
         /\ \A i \in 1..Len(calls) : calls[i].who # "retry"
         /\ (Connected /\ Len(Opens) >= 2 /\ ~Opens[1].ok /\ ~Opens[2].ok) =>
              Len(RawLookups) = 1

C3_Witness ==
    /\ Connected
    /\ ~IsDS4Record
    /\ Len(StdOpens) = 2
    /\ dev = NULL

(***************************************************************************)
(* Properties of the pairing read                                          *)
(***************************************************************************)
Ids(s) == [i \in 1..Len(s) |-> s[i].id]

ReportIdOrder == <<MAC_REPORT_ID, DS4_ALT_REPORT_1, DS4_ALT_REPORT_2>>

\* the pairing attempts of show_pairing made so far
Gets == SelectSeq(calls, LAMBDA c : c.op = "hid_get_feature_report" /\ c.who = "show_pairing")

\* the get-feature-report calls of dump_device_info made so far
DumpGets == SelectSeq(calls, LAMBDA c : c.op = "hid_get_feature_report" /\ c.who = "dump_device_info")

\* every feature-report call made so far
FeatureCalls == SelectSeq(calls, LAMBDA c : c.op \in {"hid_get_feature_report", "hid_send_feature_report"})

Reported(kind) == SelectSeq(output, LAMBDA o : o.kind = kind)

\* show_pairing has made its last pairing attempt
ShowAttemptsOver == pc \notin {"show_begin", "show_get", "show_get_12", "show_get_81"}

\* C4: on a DualShock4 handle show_pairing requests the report IDs 0xF5, 0x12,
\* 0x81 in this order, each alternate only after every earlier attempt returned
\* fewer than 8 bytes, and it stops at the first attempt that returned 8 bytes.
C4_ReadOrder ==
    (cmd = "show" /\ is_ds4) =>
        /\ IsPrefix(Ids(Gets), ReportIdOrder)
        /\ \A i \in 1..Len(Gets) - 1 : Gets[i].ret < 8
        /\ ShowAttemptsOver =>
             /\ Len(Gets) >= 1
             /\ Gets[Len(Gets)].ret >= 8 \/ Len(Gets) = 3

C4_Witness ==
    /\ cmd = "show"
    /\ is_ds4
    /\ Ids(Gets) = ReportIdOrder
    /\ Gets[1].ret = 4
    /\ Gets[2].ret = -1
    /\ Gets[3].ret = 8
    /\ pc = "exit"

\* C5: the MAC a pairing read reports is bytes 2..7 of the response of the
\* attempt that returned at least 8 bytes (the last one, every earlier one having
\* failed), and no MAC is reported when no attempt returned at least 8 bytes.
C5_ReadMac ==
    cmd = "show" =>
        /\ Len(Reported("mac")) <= 1
        /\ Len(Reported("mac")) = 1 =>
             /\ Len(Gets) >= 1
             /\ \A i \in 1..Len(Gets) - 1 : Gets[i].ret < 8
             /\ Gets[Len(Gets)].ret >= 8
             /\ Len(Gets[Len(Gets)].resp) >= 8
             /\ Reported("mac")[1].mac = SubSeq(Gets[Len(Gets)].resp, 3, 8)
        /\ (\A i \in 1..Len(Gets) : Gets[i].ret < 8) => Len(Reported("mac")) = 0

\* a failed attempt left other bytes in the buffer than the successful one
C5_Witness ==
    /\ cmd = "show"
    /\ Len(Gets) = 2
    /\ Gets[1].ret = 7
    /\ Gets[2].ret = 8
    /\ Gets[1].resp[3] # Gets[2].resp[3]
    /\ Len(Reported("mac")) = 1
    /\ Reported("mac")[1].mac = SubSeq(Gets[2].resp, 3, 8)

\* the pairing attempts that returned at least 8 bytes
GoodGets == {i \in 1..Len(Gets) : Gets[i].ret >= 8}

FirstGoodGet == CHOOSE i \in GoodGets : \A j \in GoodGets : i <= j

\* C6 as stated: once an attempt of the read operation has succeeded, the
\* feature-report calls of the whole operation number the index of that attempt.
C6_Original ==
    (cmd = "show" /\ GoodGets # {}) => Len(FeatureCalls) = FirstGoodGet

\* C6 as amended: the pairing attempts number the index of the first successful
\* one; on a DualShock4 handle whose 0xF5 attempt returns 4 bytes and whose 0x12
\* attempt returns 8 bytes there are two and the MAC is bytes 2..7 of the 0x12
\* response; every other feature-report call of the read operation is a get of
\* dump_device_info, made after the MAC was reported and only when the answer
\* read at the prompt starts with y or Y.
C6_Amended ==
    cmd = "show" =>
        /\ GoodGets # {} => Len(Gets) = FirstGoodGet
        /\ (is_ds4 /\ Len(Gets) >= 2 /\ Gets[1].ret = 4 /\ Gets[2].ret = 8) =>
             /\ Len(Gets) = 2
             /\ Ids(Gets) = <<MAC_REPORT_ID, DS4_ALT_REPORT_1>>
             /\ (ShowAttemptsOver /\ pc # "show_report") =>
                  /\ Len(Reported("mac")) = 1
                  /\ Reported("mac")[1].mac = SubSeq(Gets[2].resp, 3, 8)
        /\ FeatureCalls = Gets \o DumpGets
        /\ Len(DumpGets) <= Len(DumpReportIds)
        /\ DumpGets # <<>> =>
             /\ Len(Reported("mac")) = 1
             /\ Len(input) = 1
             /\ input[1] \in {"y", "Y"}

\* the dump follows a read of two attempts
C6_Witness ==
    /\ cmd = "show"
    /\ is_ds4
    /\ Len(Gets) = 2
    /\ Gets[1].ret = 4
    /\ Gets[2].ret = 8
    /\ input = <<"y">>
    /\ Len(FeatureCalls) = 2 + Len(DumpReportIds)
    /\ pc = "exit"

(***************************************************************************)
(* Properties of the pairing write                                         *)
(***************************************************************************)
\* the send-feature-report calls made so far
Sends == SelectSeq(calls, LAMBDA c : c.op = "hid_send_feature_report")

\* the textual forms of MAC m that are given as arguments
FormatsOf(m) ==
    {bytes_to_mac_string(m, TRUE), bytes_to_mac_string(m, FALSE),
     UpperCase(bytes_to_mac_string(m, TRUE))}

\* pair_device has validated its argument and made its last send
PairSendsOver ==
    /\ dev # NULL
    /\ pc \in {"pair_report", "dump", "close", "exit"}
    /\ ValidateMac(arg, Request(MAC_REPORT_ID)).ok

\* C7: pair_device sends the 8-byte buffer with byte0 = 0xF5 first, on a
\* DualShock4 handle with byte0 = 0x12 only after that send failed and with
\* byte0 = 0x81 only after that failed too; byte1 is 0x00 and bytes 2..7 are the
\* bytes parsed from the argument in every attempt; on another handle exactly
\* one send is made.
C7_WriteOrder ==
    cmd = "pair" =>
        /\ IsPrefix(Ids(Sends), ReportIdOrder)
        /\ \A i \in 1..Len(Sends) - 1 : Sends[i].ret = -1
        /\ \A i \in 1..Len(Sends) :
             /\ Len(Sends[i].req) = 8
             /\ Sends[i].req[2] = 0
             /\ SubSeq(Sends[i].req, 3, 8) = mac_to_bytes(arg, Zeros(6)).out
             /\ \A m \in SampleMacs :
                  arg \in FormatsOf(m) => SubSeq(Sends[i].req, 3, 8) = m
        /\ ~is_ds4 => Len(Sends) <= 1
        /\ PairSendsOver =>
             /\ Len(Sends) >= 1
             /\ ~is_ds4 => Len(Sends) = 1
             /\ is_ds4 => (Sends[Len(Sends)].ret # -1 \/ Len(Sends) = 3)

C7_Witness ==
    /\ cmd = "pair"
    /\ is_ds4
    /\ Ids(Sends) = ReportIdOrder
    /\ Sends[3].ret # -1
    /\ arg = bytes_to_mac_string(SampleMac(2), TRUE)
    /\ Sends[3].req = <<DS4_ALT_REPORT_2, 0>> \o SampleMac(2)
    /\ pc = "exit"

Accepted == {i \in 1..Len(Sends) : Sends[i].ret # -1}

\* pair_device has reported the result of its sends
PairReported == PairSendsOver /\ pc # "pair_report"

\* C8: a pairing write reports success exactly when a send was accepted, sends
\* nothing after the first accepted send, and reports a write failure exactly
\* when every send of its sequence was rejected.
C8_WriteResult ==
    cmd = "pair" =>
        /\ \A i \in Accepted : i = Len(Sends)
        /\ Len(Reported("write_ok")) + Len(Reported("write_failed")) <= 1
        /\ Len(Reported("write_ok")) = 1 => Accepted # {}
        /\ Len(Reported("write_failed")) = 1 =>
             /\ Accepted = {}
             /\ Len(Sends) = (IF is_ds4 THEN 3 ELSE 1)
        /\ PairReported =>
             /\ Accepted # {} => Len(Reported("write_ok")) = 1
             /\ Accepted = {} => Len(Reported("write_failed")) = 1

C8_Witness ==
    /\ cmd = "pair"
    /\ is_ds4
    /\ Len(Sends) = 2
    /\ Sends[1].ret = -1
    /\ Sends[2].ret # -1
    /\ Len(Reported("write_ok")) = 1
    /\ pc = "exit"

\* the MAC whose textual form is the argument
MacOfArg == CHOOSE m \in SampleMacs : arg \in FormatsOf(m)

\* C9: on the transport that keeps the last accepted buffer and returns it to a
\* get-feature-report, a pairing write of MAC m that succeeded, followed by a
\* pairing read, reports m.
C9_WriteThenRead ==
    (mode = "harness" /\ Len(Reported("write_ok")) = 1) =>
        /\ Len(Reported("read_failed")) = 0
        /\ \A i \in 1..Len(Reported("mac")) : Reported("mac")[i].mac = MacOfArg
        /\ pc = "done" => Len(Reported("mac")) = 1

\* the read returns an address other than the one held before the write
C9_Witness ==
    /\ mode = "harness"
    /\ pc = "done"
    /\ Len(Reported("write_ok")) = 1
    /\ Len(Reported("mac")) = 1
    /\ Reported("mac")[1].mac = MacOfArg
    /\ SubSeq(written0, 3, 8) # MacOfArg
    /\ arg = UpperCase(bytes_to_mac_string(MacOfArg, TRUE))

\* C10: when a pairing read or write ends in a protocol failure, the pairing
\* address held by the controller is the one it held when the command started.
C10_FailureKeepsPairing ==
    (Len(Reported("read_failed")) + Len(Reported("write_failed")) > 0) =>
        Stored = SubSeq(written0, 3, 8)

C10_Witness ==
    /\ Len(Reported("write_failed")) = 1
    /\ is_ds4
    /\ Len(Sends) = 3
    /\ mac_to_bytes(arg, Zeros(6)).out # Stored
    /\ Stored = SubSeq(written0, 3, 8)
    /\ pc = "exit"

(***************************************************************************)
(* Input validation and resources over whole runs of main                  *)
(***************************************************************************)
\* the calls that reach a device or the list of devices
DeviceIO ==
    SelectSeq(calls, LAMBDA c : c.op \in {"hid_enumerate", "hid_open_path",
                                         "hid_open", "hid_get_feature_report",
                                         "hid_send_feature_report"})

\* main was given one argument that is no option
MacArgumentGiven == argc = 2 /\ ~WantsUsage /\ ~WantsOption

\* C11: when the argument of the write command is malformed, the malformed-input
\* error is reported before any device I/O is attempted: whenever an enumeration,
\* a device open or a feature report has been made, the error has been reported.
C11_ErrorBeforeDeviceIO ==
    (/\ mode = "whole"
     /\ MacArgumentGiven
     /\ ~ValidateMac(argv[1], Request(MAC_REPORT_ID)).ok
     /\ DeviceIO # <<>>)
        => Reported("invalid_mac") # <<>>

\* a MAC address in one of its two textual forms: 12 hex digits, or 17
\* characters with a colon after every pair of hex digits
WellFormedMac(s) ==
    \/ /\ Len(s) = 12
       /\ \A i \in 1..12 : isxdigit(s[i])
    \/ /\ Len(s) = 17
       /\ \A i \in 1..17 : IF i % 3 = 0 THEN s[i] = ":" ELSE isxdigit(s[i])

\* C12: a send-feature-report is issued only when the command-line argument is a
\* well-formed MAC; with no argument, with an option, with any other argument
\* starting with '-' or with an argument that is no MAC, none is ever made.
C12_SendOnlyWellFormed ==
    (mode = "whole" /\ Sends # <<>>) =>
        /\ argc = 2
        /\ argv[1][1] # "-"
        /\ WellFormedMac(argv[1])

\* the number of hid_close calls made on handle h
ClosesOf(h) ==
    Cardinality({i \in 1..Len(calls) : calls[i].op = "hid_close" /\ calls[i].id = h})

\* main or dump_controller_info holds what connect_to_controller returned
HoldsHandle ==
    pc \in {"connect_ret", "pair_begin", "pair_send", "pair_send_12",
            "pair_send_81", "pair_report", "show_begin", "show_get",
            "show_get_12", "show_get_81", "show_report", "dump", "close"}

\* C13: every device handle opened in a run is closed exactly once before the
\* process exits, on every exit path, only opened handles are closed, and when
\* connect_to_controller has returned the only handle open is the one it returned.
C13_HandlesClosed ==
    mode = "whole" =>
        /\ \A i \in 1..Len(calls) :
             calls[i].op = "hid_close" => calls[i].id \in Yielded /\ calls[i].id < i
        /\ \A h \in Yielded : ClosesOf(h) <= 1
        /\ exit_code # -1 => \A h \in Yielded : ClosesOf(h) = 1
        /\ HoldsHandle =>
             /\ Yielded = IF dev = NULL THEN {} ELSE {dev.id}
             /\ \A h \in Yielded : ClosesOf(h) = 0

\* a run given a malformed MAC that opened a handle on the third route and ended
C13_Witness ==
    /\ mode = "whole"
    /\ exit_code = 0
    /\ Reported("invalid_mac") # <<>>
    /\ dev.route = "raw"
    /\ ClosesOf(dev.id) = 1

\* the snapshots obtained from hid_enumerate
Enumerations == {i \in 1..Len(calls) : calls[i].op = "hid_enumerate"}

ReleasesOf(e) ==
    Cardinality({i \in 1..Len(calls) :
                   calls[i].op = "hid_free_enumeration" /\ calls[i].id = e})

\* the records find_controllers returned, by their paths
ReturnedRecords ==
    IF pc \in {"main", "dispatch", "find", "find_scan", "find_sort", "find_free"}
    THEN {}
    ELSE {controllers[i].path : i \in 1..controller_count}

FreesOf(p) ==
    Cardinality({i \in 1..Len(calls) :
                   calls[i].op = "free_controller_info" /\ calls[i].id = p})

\* C14: every enumeration snapshot is released exactly once, and every record
\* returned by find_controllers is freed exactly once, on every exit path of
\* main and dump_controller_info; nothing else is released or freed.
C14_Released ==
    mode = "whole" =>
        /\ \A i \in 1..Len(calls) :
             /\ calls[i].op = "hid_free_enumeration" =>
                  calls[i].id \in Enumerations /\ calls[i].id < i
             /\ calls[i].op = "free_controller_info" =>
                  calls[i].id \in ReturnedRecords
        /\ \A e \in Enumerations : ReleasesOf(e) <= 1
        /\ \A p \in ReturnedRecords : FreesOf(p) <= 1
        /\ exit_code # -1 =>
             /\ \A e \in Enumerations : ReleasesOf(e) = 1
             /\ \A p \in ReturnedRecords : FreesOf(p) = 1

\* main found two controllers and could connect to none
C14_Witness ==
    /\ mode = "whole"
    /\ exit_code = 1
    /\ cmd = "pair"
    /\ Reported("connect_failed") # <<>>
    /\ Cardinality(ReturnedRecords) = 2
    /\ \A p \in ReturnedRecords : FreesOf(p) = 1
    /\ Cardinality(Enumerations) = 1

\* C15: hid_init is the first transport call; when it fails the process exits
\* with status 1 and makes no other call; when it succeeds hid_exit is called
\* exactly once, after every other call, on every exit path.
C15_InitExit ==
    mode = "whole" =>
        /\ calls # <<>> => calls[1].op = "hid_init"
        /\ \A i \in 2..Len(calls) : calls[i].op # "hid_init"
        /\ pc # "main" => calls # <<>>
        /\ (calls # <<>> /\ ~calls[1].ok) =>
             Len(calls) = 1 /\ exit_code = 1 /\ pc = "exit"
        /\ \A i \in 1..Len(calls) : calls[i].op = "hid_exit" => i = Len(calls)
        /\ (exit_code # -1 /\ calls[1].ok) => calls[Len(calls)].op = "hid_exit"

\* a run that wrote a pairing address, closed its handle and shut the library down
C15_Witness ==
    /\ mode = "whole"
    /\ exit_code = 0
    /\ Sends # <<>>
    /\ ClosesOf(dev.id) = 1
    /\ calls[1].op = "hid_init"
    /\ calls[Len(calls)].op = "hid_exit"

\* the feature reports of the pairing operations
PairingCalls ==
    SelectSeq(calls, LAMBDA c : c.op \in {"hid_get_feature_report",
                                         "hid_send_feature_report"}
                                /\ c.who \in {"pair_device", "show_pairing"})

\* C20: a DualShock4 interface other than the preferred HID interface is never
\* used for pairing: no pairing read or write is issued on a handle opened for
\* a DualShock4 record whose preferred flag is false.
C20_PreferredInterfaceOnly ==
    (mode = "whole" /\ PairingCalls # <<>>) =>
        ~(controller.product_id = PRODUCT_DS4 /\ ~controller.is_preferred)

(***************************************************************************)
(* The list find_controllers returns                                       *)
(***************************************************************************)
Returned == pc = "found"

Paths(s) == [i \in 1..Len(s) |-> s[i].path]

\* enumeration order: a descriptor's path is its place in the enumeration
Ascending(s) == \A i, j \in 1..Len(s) : i < j => s[i] < s[j]

PreferredRecords == SelectSeq(controllers, LAMBDA c : c.is_preferred)

OtherRecords == SelectSeq(controllers, LAMBDA c : ~c.is_preferred)

\* C16: in the list find_controllers returns, every preferred record precedes
\* every record that is not preferred.
C16_PreferredFirst ==
    Returned =>
        \A i, j \in 1..controller_count :
            (controllers[i].is_preferred /\ ~controllers[j].is_preferred) => i < j

\* a preferred record enumerated last is returned first
C16_Witness ==
    /\ Returned
    /\ controller_count = 3
    /\ controllers[1].is_preferred
    /\ controllers[1].path = 3
    /\ ~controllers[2].is_preferred

\* C17 as stated: the reordering is a stable partition, the preferred records
\* and the other records both keep their relative enumeration order.
C17_Original ==
    Returned =>
        /\ Ascending(Paths(PreferredRecords))
        /\ Ascending(Paths(OtherRecords))

\* is_supported of the catalog: vendor 0x054c, product 0x0268, 0x042f or 0x09cc
Supported(d) == d.vendor_id = 1356 /\ d.product_id \in {616, 1071, 2508}

SupportedAttached == SelectSeq(attached, Supported)

\* the records of the supported descriptors that the scan reached
Scanned ==
    {create_controller_info(SupportedAttached[i]) :
        i \in 1..(IF Len(SupportedAttached) < max_controllers
                  THEN Len(SupportedAttached) ELSE max_controllers)}

\* C17: the preferred records keep their relative enumeration order; the other
\* records are the scanned ones in some order, which need not be the
\* enumeration order.
C17_Amended ==
    Returned =>
        /\ Ascending(Paths(PreferredRecords))
        /\ Range(OtherRecords) = {c \in Scanned : ~c.is_preferred}
        /\ Len(PreferredRecords) + Len(OtherRecords) = Cardinality(Scanned)

\* two preferred records were moved ahead of a record enumerated before them
C17_Witness ==
    /\ Returned
    /\ Len(PreferredRecords) = 2
    /\ Len(OtherRecords) = 1
    /\ OtherRecords[1].path = 1
    /\ controllers[3].path = 1

C19_CapSignalled ==
    Returned =>
        /\ controller_count <= max_controllers
        /\ Len(controllers) <= max_controllers
        /\ Len(SupportedAttached) > max_controllers =>
             controller_count # max_controllers

(***************************************************************************)
(* The MAC codec                                                           *)
(***************************************************************************)
IsHexDigit(c) ==
    c \in {"0", "1", "2", "3", "4", "5", "6", "7", "8", "9",
           "a", "b", "c", "d", "e", "f", "A", "B", "C", "D", "E", "F"}

\* the number of hex digits in s
HexCount(s) == Cardinality({i \in 1..Len(s) : IsHexDigit(s[i])})

\* pair_device has parsed its argument
Parsed == mode = "codec" /\ pc \notin {"format", "pair_begin"}

ParseRejected == Parsed /\ Reported("invalid_mac") # <<>>

ParseAccepted == Parsed /\ Reported("invalid_mac") = <<>>

\* C21: parsing succeeds only when exactly six pairs of hex digits were
\* consumed; a text of accepted length with fewer pairs is rejected.
C21_SixPairs == ParseAccepted => HexCount(arg) = 12

\* C22: for every six-byte array b, parsing bytes_to_mac_string(b) succeeds and
\* yields b, with colons (17 characters) and without (12 characters).
C22_RoundTrip ==
    (mode = "codec" /\ cmd \in {"colons", "plain"} /\ pc # "format") =>
        /\ Len(arg) = IF cmd = "colons" THEN 17 ELSE 12
        /\ Parsed => /\ ParseAccepted
                     /\ SubSeq(buf, 3, 8) = SubSeq(written0, 3, 8)

\* fa:0b:1c:2d:3e:4f went through both functions
C22_Witness ==
    /\ ParseAccepted
    /\ cmd = "colons"
    /\ SubSeq(written0, 3, 8) = <<250, 11, 28, 45, 62, 79>>
    /\ SubSeq(buf, 3, 8) = <<250, 11, 28, 45, 62, 79>>
    /\ arg[1] = "f" /\ arg[2] = "a" /\ arg[3] = ":"

\* characters are left after a complete six-byte value
TrailingAfterSix(s) ==
    \E k \in 1..(Len(s) - 1) : HexCount(SubSeq(s, 1, k)) = 12

\* C23: parsing rejects the empty string, every length other than 12 and 17,
\* every odd number of hex digits, every character that is neither a hex digit
\* nor a colon, and characters left after a complete six-byte value; a rejected
\* text is not sent to the controller.
C23_Rejects ==
    Parsed =>
        /\ (\/ arg = <<>>
            \/ Len(arg) \notin {12, 17}
            \/ HexCount(arg) % 2 = 1
            \/ \E i \in 1..Len(arg) : ~IsHexDigit(arg[i]) /\ arg[i] # ":"
            \/ TrailingAfterSix(arg)) => ParseRejected
        /\ ParseRejected => Sends = <<>> /\ pc = "close"

\* twelve hex digits followed by five colons are rejected
C23_Witness ==
    /\ ParseRejected
    /\ arg = Text12 \o Colons(5)
    /\ HexCount(arg) = 12
    /\ Sends = <<>>

(***************************************************************************)
(* Exit status and reports of main                                         *)
(***************************************************************************)
\* the read command (no argument) or the write command (one argument that is
\* no option)
ReadOrWrite == mode = "whole" /\ (argc = 1 \/ MacArgumentGiven)

C25_NoDeviceNotFatal ==
    (mode = "whole" /\ Reported("no_controller") # <<>> /\ pc = "exit") =>
        Reported("list") # <<>>

\* C26: Sony devices that are present while none is in the catalog are reported
\* differently from no device at all: the report made for no device at all is
\* not made when a Sony device is attached.
C26_DistinctWarning ==
    (mode = "whole" /\ Reported("no_controller") # <<>>) =>
        hid_enumerate(VENDOR_SONY) = <<>>

(***************************************************************************)
(* Termination of find_controllers and select_controller                   *)
(***************************************************************************)
\* C27: find_controllers terminates for every finite enumeration, also when
\* create_controller_info returns NULL: it returns, its snapshot released.
C27_Terminates ==
    <>(pc = "found" /\ ReleasesOf(devs.id) = 1)

\* C28: select_controller always returns, also when stdin has ended: main
\* reaches the connection or its invalid-selection exit.
C28_SelectReturns ==
    (pc = "select") ~> (pc \in {"connect_path", "exit"})

\* C29: whenever a preferred descriptor (DualShock4, interface 3) is
\* enumerated, the first record find_controllers returns is preferred, whatever
\* the enumeration order and the number of supported descriptors.
C29_FirstIsPreferred ==
    (/\ Returned
     /\ \E k \in 1..Len(attached) :
          /\ attached[k].vendor_id = 1356
          /\ attached[k].product_id = 2508
          /\ attached[k].interface_number = 3)
        => (controller_count >= 1 /\ controllers[1].is_preferred)

\* C30: for a handle returned for a DualShock4 record the pairing read and
\* write take the DualShock4 decision: is_ds4 never disagrees with the kind of
\* the selected record.
C30_DS4Decision ==
    (mode = "main" /\ pc \in {"pair_send", "pair_send_12", "pair_send_81",
                              "show_get", "show_get_12", "show_get_81"}) =>
        (is_ds4 <=> controller.product_id = PRODUCT_DS4)

=============================================================================
